---- MODULE Spec2Model ----
(***************************************************************************)
(* Model of drawing.py: the self-loop geometry (normalize_vector,          *)
(* orthogonal_vector, draw_self_loop) and the edge routing of              *)
(* draw_graph_edges / chord_diagram.                                       *)
(*                                                                         *)
(* Numbers.  Coordinates are integers counted in units of EPSILON (1e-6),  *)
(* so EPSILON itself is 1.  A float is an extended rational                *)
(* [k, n, d]: k = "fin" is n/d, k = "inf" is a signed infinity (n = sign), *)
(* k = "nan" is not-a-number, as numpy float64 division produces them.     *)
(* A vector rescaled by normalize_vector keeps its direction (x, y) and    *)
(* records the length it was rescaled to in the field norm.  Widths are    *)
(* integers counted in tenths, so a dot product is counted in 1e-7 and     *)
(* Tol = 10 stands for 1e-6.                                               *)
(***************************************************************************)
EXTENDS Integers, Sequences, FiniteSets

\* ---- bounds of the model ------------------------------------------------
MaxNode == 1
MaxEdges == 2
MaxWeight == 2
MaxCoord == 3
Big == 10000
MaxWidth == 3
Tol == 10

\* ---- program constants --------------------------------------------------
EPSILON == 1

\* Python None, for the optional numbers and Axes handles (which are all >= 0)
None == -1

NoError == "none"

VARIABLES graph, pc, mode, ax, pos, edge_weights, edges_to_draw, i, calls,
          gca, nfig, ret, removed, err,
          gpc, gpoint, gwidth, gres, gpath

vars == <<graph, pc, mode, ax, pos, edge_weights, edges_to_draw, i, calls,
          gca, nfig, ret, removed, err, gpc, gpoint, gwidth, gres, gpath>>

graphVars == <<graph, pc, mode, ax, pos, edge_weights, edges_to_draw, i, calls,
               gca, nfig, ret, removed, err>>

geomVars == <<gpc, gpoint, gwidth, gres, gpath>>

Range(s) == {s[k] : k \in DOMAIN s}

Abs(n) == IF n < 0 THEN -n ELSE n

Sign(n) == IF n < 0 THEN -1 ELSE IF n > 0 THEN 1 ELSE 0

\* ---- floats -------------------------------------------------------------
Fin(n, d) == [k |-> "fin", n |-> n, d |-> d]

Inf(s) == [k |-> "inf", n |-> s, d |-> 0]

NaN == [k |-> "nan", n |-> 0, d |-> 0]

\* numpy float64 division num / den of two finite numbers
Div(num, den) ==
    IF den # 0 THEN Fin(num, den)
    ELSE IF num = 0 THEN NaN
    ELSE Inf(Sign(num))

\* class of np.linalg.norm(vector): "zero", "fin" (finite, non-zero), "inf" or "nan"
NormClass(vector) ==
    IF vector.x.k = "nan" \/ vector.y.k = "nan" THEN "nan"
    ELSE IF vector.x.k = "inf" \/ vector.y.k = "inf" THEN "inf"
    ELSE IF vector.x.n = 0 /\ vector.y.n = 0 THEN "zero"
    ELSE "fin"

\* one component c of vector * normalize_to / vector_norm
ScaleComponent(c, nc) ==
    CASE nc = "fin" -> c
      [] nc = "zero" -> NaN
      [] nc = "inf" -> IF c.k = "fin" THEN Fin(0, 1) ELSE NaN
      [] OTHER -> NaN

normalize_vector(vector, normalize_to) ==
    LET vector_norm == NormClass(vector)
    IN  [x |-> ScaleComponent(vector.x, vector_norm),
         y |-> ScaleComponent(vector.y, vector_norm),
         norm |-> IF vector_norm = "fin" THEN normalize_to ELSE None]

\* orthogonal_vector with the sign of y dropped
orthogonal_vector_NoMinus(point, width, normalize_to) ==
    LET x == width
        y == Div(x * point[1], point[2] + EPSILON)
        ort_vector == [x |-> Fin(x, 1), y |-> y, norm |-> None]
    IN  IF normalize_to # None
        THEN normalize_vector(ort_vector, normalize_to)
        ELSE ort_vector

orthogonal_vector(point, width, normalize_to) ==
    LET x == width
        y == Div(-x * point[1], point[2] + EPSILON)
        ort_vector == [x |-> Fin(x, 1), y |-> y, norm |-> None]
    IN  IF normalize_to # None
        THEN normalize_vector(ort_vector, normalize_to)
        ELSE ort_vector

\* default arguments of draw_self_loop: padding = 1.5 = PaddingNum / PaddingDen,
\* width = 0.3 (widths are counted in tenths)
PaddingNum == 3
PaddingDen == 2
DefaultWidth == 3

\* the Bezier path of draw_self_loop: verts = [point, ort + pp, -ort + pp, point],
\* pp = padding * point kept as the pair of fractions over PaddingDen
SelfLoopPath(point, paddingNum, width) ==
    LET point_with_padding == <<Fin(paddingNum * point[1], PaddingDen),
                                Fin(paddingNum * point[2], PaddingDen)>>
        ort_vector == orthogonal_vector(point, width, width)
    IN  [start |-> point, base |-> point_with_padding, offset |-> ort_vector]

NoPath == [start |-> <<0, 0>>, base |-> <<NaN, NaN>>,
           offset |-> [x |-> NaN, y |-> NaN, norm |-> None]]

\* ---- graphs -------------------------------------------------------------
Nodes == 0 .. MaxNode

Weights == 1 .. MaxWeight

Reverse(edge) == <<edge[2], edge[1]>>

\* graph.edges in enumeration order: sequences of distinct edges
EdgeSeqs ==
    {s \in UNION {[1 .. k -> Nodes \X Nodes] : k \in 0 .. MaxEdges} :
        \A a, b \in DOMAIN s : a # b => s[a] # s[b]}

\* an undirected graph reports each edge once, in one orientation
WellFormed(directed, s) ==
    directed \/ \A a, b \in DOMAIN s : a # b => s[a] # Reverse(s[b])

\* nx.DiGraph(np.array(A)): an edge i -> j for every non-zero entry, row by row,
\* the entry being the weight
FromArray(A) ==
    LET n == Len(A)
        cells == [k \in 1 .. n * n |-> <<(k - 1) \div n, (k - 1) % n>>]
        present(e) == A[e[1] + 1][e[2] + 1] # 0
        es == SelectSeq(cells, present)
    IN  [directed |-> TRUE, nodes |-> 0 .. n - 1, edges |-> es,
         weight |-> [e \in Range(es) |-> A[e[1] + 1][e[2] + 1]]]

ExampleArray == <<<<1, 2, 1>>, <<1, 0, 3>>, <<1, 1, 3>>>>

ExampleGraph == FromArray(ExampleArray)

\* `edge in graph.edges`
HasEdge(g, edge) ==
    \/ edge \in Range(g.edges)
    \/ ~g.directed /\ Reverse(edge) \in Range(g.edges)

graph_edges_weights(g) == [edge \in Range(g.edges) |-> g.weight[edge]]

\* the position map handed to the drawing code (a layout of the nodes around the
\* origin, node 0 on the x axis as nx.circular_layout places it)
Layout(nodes) == [n \in nodes |-> <<Big - 2 * n, n>>]

\* ---- pyplot surfaces ----------------------------------------------------
\* the surface a networkx drawing call uses: ax, or plt.gca() when ax is None
\* (gca creates a figure when there is none)
Surface(a, cur, n) == IF a # None THEN a ELSE IF cur # None THEN cur ELSE n + 1

Call(fn, edge, width, color, style, surface, path) ==
    [fn |-> fn, edge |-> edge, width |-> width, color |-> color,
     style |-> style, ax |-> surface, path |-> path]

NoEdge == <<-1, -1>>

StartGraph ==
    /\ pc = "start"
    /\ mode = "none"
    /\ ax = None
    /\ pos = <<>>
    /\ edge_weights = <<>>
    /\ edges_to_draw = {}
    /\ i = 0
    /\ calls = <<>>
    /\ gca = None
    /\ nfig = 0
    /\ ret = -2
    /\ removed = <<>>
    /\ err = NoError

InitGraph ==
    /\ \/ \E d \in BOOLEAN, s \in EdgeSeqs :
            /\ WellFormed(d, s)
            /\ \E w \in [Range(s) -> Weights] :
                 graph = [directed |-> d, nodes |-> Nodes, edges |-> s, weight |-> w]
       \/ graph = ExampleGraph
    /\ StartGraph

IdleGeom ==
    /\ gpc = "idle"
    /\ gpoint = <<0, 0>>
    /\ gwidth = 0
    /\ gres = NoPath.offset
    /\ gpath = NoPath

Init == InitGraph /\ IdleGeom

\* ---- drawing calls ------------------------------------------------------
\* w = [calls, gca, nfig] is the plotting state a drawing call changes

\* a networkx drawing function called with ax = a
NxDraw(w, a, fn, edge, width, color, style) ==
    LET s == Surface(a, w.gca, w.nfig)
    IN  [calls |-> Append(w.calls, Call(fn, edge, width, color, style, s, NoPath)),
         gca |-> IF a = None THEN s ELSE w.gca,
         nfig |-> IF s > w.nfig THEN s ELSE w.nfig]

draw_self_loop(w, point, a, linewidth) ==
    LET s == IF a = None THEN w.nfig + 1 ELSE a
    IN  [calls |-> Append(w.calls,
                     Call("draw_self_loop", NoEdge, linewidth, "pink", "-|>", s,
                          SelfLoopPath(point, PaddingNum, DefaultWidth))),
         gca |-> IF a = None THEN s ELSE w.gca,
         nfig |-> IF a = None THEN s ELSE w.nfig]

ArcStyle(arc_radius) == IF arc_radius = 2 THEN "arc3,rad=0.2" ELSE "arc3,rad=0.1"

draw_graph_edge(w, edge, edge_weight, a, color, arc_radius) ==
    NxDraw(w, a, "draw_graph_edge", edge, edge_weight, color, ArcStyle(arc_radius))

\* the skip of line 178 never taken
AlreadyDrawn_Never(edge, working) == FALSE

\* line 178
AlreadyDrawn(edge, working) == edge \notin working

\* the self-loop test of line 181 never true
IsSelfLoop_Never(edge) == FALSE

\* line 181
IsSelfLoop(edge) == edge[1] = edge[2]

\* variants of the test of line 193
ReversePending_Always(g, working, reverse_edge) == TRUE

ReversePending_Never(g, working, reverse_edge) == FALSE

ReversePending_InGraphOnly(g, working, reverse_edge) == HasEdge(g, reverse_edge)

\* line 193
ReversePending(g, working, reverse_edge) ==
    HasEdge(g, reverse_edge) /\ reverse_edge \in working

\* line 198: the width handed to the reverse edge's draw call
ReverseEdgeWidth(ew, edge, reverse_edge) == ew[edge]

\* the reverse edge drawn in the colour of the first
ReverseColor_Pink == "pink"

\* lines 200-201
ReverseColor == "lightblue"

ReverseRadius == 1

\* set.remove: KeyError when the element is absent
SetRemove(st, edge) ==
    IF st.err # NoError THEN st
    ELSE IF edge \in st.working
    THEN [st EXCEPT !.working = @ \ {edge}, !.removed = Append(@, edge)]
    ELSE [st EXCEPT !.err = "KeyError"]

Here == [working |-> edges_to_draw, removed |-> removed, err |-> err]

World == [calls |-> calls, gca |-> gca, nfig |-> nfig]

SetWorld(w) ==
    /\ calls' = w.calls
    /\ gca' = w.gca
    /\ nfig' = w.nfig

SetHere(st) ==
    /\ edges_to_draw' = st.working
    /\ removed' = st.removed
    /\ err' = st.err
    /\ IF st.err # NoError
       THEN pc' = "raised" /\ UNCHANGED i
       ELSE pc' = "loop" /\ i' = i + 1

\* lines 174-175
EnterDrawGraphEdges ==
    /\ edge_weights' = graph_edges_weights(graph)
    /\ edges_to_draw' = Range(graph.edges)
    /\ i' = 1
    /\ pc' = "loop"
    /\ UNCHANGED <<graph, ret, removed, err>>

\* chord_diagram(graph, ax), lines 209-212; a caller that passes ax has created it
CallChordDiagram ==
    /\ pc = "start"
    /\ pos' = Layout(graph.nodes)
    /\ \E a \in {None, 1} :
         /\ ax' = a
         /\ LET w0 == [calls |-> calls,
                       gca |-> IF a = None THEN gca ELSE a,
                       nfig |-> IF a = None THEN nfig ELSE a]
            IN  SetWorld(NxDraw(w0, a, "draw_networkx_nodes", NoEdge, 0, "n/a", "n/a"))
    /\ mode' = "chord"
    /\ EnterDrawGraphEdges
    /\ UNCHANGED geomVars

\* draw_graph_edges(graph, pos, ax) called directly with an existing Axes
CallDrawGraphEdges ==
    /\ pc = "start"
    /\ pos' = Layout(graph.nodes)
    /\ ax' = 1
    /\ gca' = 1
    /\ nfig' = 1
    /\ mode' = "edges"
    /\ EnterDrawGraphEdges
    /\ UNCHANGED <<calls, geomVars>>

InLoop == pc = "loop" /\ i <= Len(graph.edges)

\* lines 178-179
SkipEdge ==
    /\ InLoop
    /\ AlreadyDrawn(graph.edges[i], edges_to_draw)
    /\ i' = i + 1
    /\ UNCHANGED <<graph, pc, mode, ax, pos, edge_weights, edges_to_draw, calls,
                   gca, nfig, ret, removed, err, geomVars>>

\* lines 181-184
DrawLoopEdge ==
    /\ InLoop
    /\ LET edge == graph.edges[i]
       IN  /\ ~AlreadyDrawn(edge, edges_to_draw)
           /\ IsSelfLoop(edge)
           /\ SetWorld([draw_self_loop(World, pos[edge[1]], ax, edge_weights[edge])
                          EXCEPT !.calls[Len(calls) + 1].edge = edge])
           /\ SetHere(SetRemove(Here, edge))
    /\ UNCHANGED <<graph, mode, ax, pos, edge_weights, ret, geomVars>>

\* lines 186-203
DrawPlainEdge ==
    /\ InLoop
    /\ LET edge == graph.edges[i]
           reverse_edge == Reverse(edge)
           w1 == draw_graph_edge(World, edge, edge_weights[edge], ax, "pink", 2)
           st1 == SetRemove(Here, edge)
       IN  /\ ~AlreadyDrawn(edge, edges_to_draw)
           /\ ~IsSelfLoop(edge)
           /\ IF st1.err = NoError /\ ReversePending(graph, st1.working, reverse_edge)
              THEN /\ SetWorld(draw_graph_edge(w1, reverse_edge,
                                 ReverseEdgeWidth(edge_weights, edge, reverse_edge),
                                 ax, ReverseColor, ReverseRadius))
                   /\ SetHere(SetRemove(st1, reverse_edge))
              ELSE /\ SetWorld(w1)
                   /\ SetHere(st1)
    /\ UNCHANGED <<graph, mode, ax, pos, edge_weights, ret, geomVars>>

\* line 205, draw_graph_edges called directly
ReturnDrawGraphEdges ==
    /\ pc = "loop"
    /\ i > Len(graph.edges)
    /\ mode = "edges"
    /\ ret' = ax
    /\ pc' = "done"
    /\ UNCHANGED <<graph, mode, ax, pos, edge_weights, edges_to_draw, i, calls,
                   gca, nfig, removed, err, geomVars>>

\* line 205 inside chord_diagram (the result is dropped), then lines 213-215
ReturnChordDiagram ==
    /\ pc = "loop"
    /\ i > Len(graph.edges)
    /\ mode = "chord"
    /\ SetWorld(NxDraw(World, ax, "draw_networkx_labels", NoEdge, 0, "n/a", "n/a"))
    /\ ret' = ax
    /\ pc' = "done"
    /\ UNCHANGED <<graph, mode, ax, pos, edge_weights, edges_to_draw, i,
                   removed, err, geomVars>>

Next ==
    \/ CallChordDiagram
    \/ CallDrawGraphEdges
    \/ SkipEdge
    \/ DrawLoopEdge
    \/ DrawPlainEdge
    \/ ReturnDrawGraphEdges
    \/ ReturnChordDiagram

Spec == Init /\ [][Next]_vars

FairSpec == Spec /\ WF_vars(Next)

\* ---- the geometry routines on their own ---------------------------------
Coords == (-MaxCoord .. MaxCoord) \cup {Big, -Big}

InitGeom ==
    /\ graph = [directed |-> TRUE, nodes |-> {}, edges |-> <<>>, weight |-> <<>>]
    /\ StartGraph
    /\ gpc = "in"
    /\ gpoint \in Coords \X Coords
    /\ gwidth \in 1 .. MaxWidth
    /\ gres = NoPath.offset
    /\ gpath = NoPath

\* orthogonal_vector(point, width), normalize_to left at None
CallOrthogonalVector ==
    /\ gpc = "in"
    /\ gres' = orthogonal_vector(gpoint, gwidth, None)
    /\ gpc' = "orthogonal_vector"
    /\ UNCHANGED <<graphVars, gpoint, gwidth, gpath>>

\* draw_self_loop(point, ax, width=width), lines 98-105
CallDrawSelfLoop ==
    /\ gpc = "in"
    /\ gpath' = SelfLoopPath(gpoint, PaddingNum, gwidth)
    /\ gres' = gpath'.offset
    /\ gpc' = "draw_self_loop"
    /\ UNCHANGED <<graphVars, gpoint, gwidth>>

GeomNext == CallOrthogonalVector \/ CallDrawSelfLoop

GeomSpec == InitGeom /\ [][GeomNext]_vars

\* numerator and denominator of the dot product of a finite vector v and a point p
DotNum(v, p) == v.x.n * p[1] * v.y.d + v.y.n * p[2] * v.x.d

DotDen(v) == v.x.d * v.y.d

\* ---- properties ----------------------------------------------------------
Done == pc = "done"

\* positions in calls of the edge-drawing calls made for the tuple e
DrawsOf(e) ==
    {k \in DOMAIN calls : /\ calls[k].fn \in {"draw_self_loop", "draw_graph_edge"}
                          /\ calls[k].edge = e}

Removals(e) == {k \in DOMAIN removed : removed[k] = e}

Pink(k) == calls[k].color = "pink" /\ calls[k].style = "arc3,rad=0.2"

LightBlue(k) == calls[k].color = "lightblue" /\ calls[k].style = "arc3,rad=0.1"

\* C1: one run of draw_graph_edges issues exactly one draw call per edge of the
\* graph: never two calls for one edge, never a call for a tuple that is not an
\* edge, and one call for every edge once the routine has returned
C1_EachEdgeDrawnOnce ==
    /\ \A k \in DOMAIN calls :
         calls[k].fn \in {"draw_self_loop", "draw_graph_edge"}
            => /\ calls[k].edge \in Range(graph.edges)
               /\ DrawsOf(calls[k].edge) = {k}
    /\ Done => \A e \in Range(graph.edges) : Cardinality(DrawsOf(e)) = 1

C1_Witness ==
    /\ Done
    /\ graph.directed
    /\ {<<0, 0>>, <<0, 1>>, <<1, 0>>} \subseteq Range(graph.edges)
    /\ \A e \in Range(graph.edges) : Cardinality(DrawsOf(e)) = 1

\* C2: in a directed graph with both (a,b) and (b,a), a # b, after the run each
\* of the two was removed from the working set exactly once, the one enumerated
\* first was drawn pink with radius 0.2, the other lightblue with radius 0.1, in
\* the same iteration (so it is skipped when the loop reaches it)
C2_PairStyles ==
    (Done /\ graph.directed) =>
        \A m, n \in DOMAIN graph.edges :
            (m < n /\ graph.edges[n] = Reverse(graph.edges[m])) =>
                \E k \in DOMAIN calls :
                    /\ k + 1 \in DOMAIN calls
                    /\ DrawsOf(graph.edges[m]) = {k}
                    /\ DrawsOf(graph.edges[n]) = {k + 1}
                    /\ Pink(k)
                    /\ LightBlue(k + 1)
                    /\ Cardinality(Removals(graph.edges[m])) = 1
                    /\ Cardinality(Removals(graph.edges[n])) = 1

C2_Witness ==
    /\ Done
    /\ graph.directed
    /\ \E m, n \in DOMAIN graph.edges :
         /\ m < n
         /\ graph.edges[m] = <<1, 0>>
         /\ graph.edges[n] = <<0, 1>>
    /\ \E k \in DOMAIN calls : LightBlue(k) /\ calls[k].edge = <<0, 1>>

\* C3: every edge is drawn with a line width equal to its own weight, also the
\* reverse edge of a bidirectional pair
C3_WidthIsOwnWeight ==
    \A k \in DOMAIN calls :
        calls[k].fn \in {"draw_self_loop", "draw_graph_edge"}
            => calls[k].width = graph_edges_weights(graph)[calls[k].edge]

\* C4: a self-loop (a,a) is never handed to draw_graph_edge; after the run it
\* was drawn once, by draw_self_loop at pos[a] with its weight as line width,
\* and removed from the working set once
C4_SelfLoopRouting ==
    /\ \A k \in DOMAIN calls :
         calls[k].fn = "draw_graph_edge" => calls[k].edge[1] # calls[k].edge[2]
    /\ Done =>
         \A e \in Range(graph.edges) :
            e[1] = e[2] =>
               /\ Cardinality(DrawsOf(e)) = 1
               /\ \A k \in DrawsOf(e) :
                    /\ calls[k].fn = "draw_self_loop"
                    /\ calls[k].path.start = pos[e[1]]
                    /\ calls[k].width = graph.weight[e]
               /\ Cardinality(Removals(e)) = 1

C4_Witness ==
    /\ Done
    /\ <<1, 1>> \in Range(graph.edges)
    /\ graph.weight[<<1, 1>>] = 2
    /\ \E k \in DOMAIN calls :
         calls[k].fn = "draw_self_loop" /\ calls[k].edge = <<1, 1>>

\* C5: for a non-self-loop edge (a,b) whose reverse (b,a) is not an edge there
\* is never a lightblue call for the pair, and after the run exactly one
\* draw_graph_edge call for the pair, pink with radius 0.2
C5_SingleEdge ==
    \A e \in Range(graph.edges) :
        (e[1] # e[2] /\ Reverse(e) \notin Range(graph.edges)) =>
            /\ \A k \in DrawsOf(e) \cup DrawsOf(Reverse(e)) : ~LightBlue(k)
            /\ Done =>
                 /\ DrawsOf(Reverse(e)) = {}
                 /\ Cardinality(DrawsOf(e)) = 1
                 /\ \A k \in DrawsOf(e) :
                      calls[k].fn = "draw_graph_edge" /\ Pink(k)

C5_Witness ==
    /\ Done
    /\ <<0, 1>> \in Range(graph.edges)
    /\ <<1, 0>> \notin Range(graph.edges)
    /\ \E k \in DOMAIN calls : calls[k].edge = <<0, 1>> /\ Pink(k)

LoopsAt(n) ==
    {k \in DrawsOf(<<n, n>>) : calls[k].fn = "draw_self_loop"}

\* one pink and one lightblue call for the pair (a,b)/(b,a)
OnePinkOneLightBlue(a, b) ==
    \E k, l \in DrawsOf(<<a, b>>) \cup DrawsOf(<<b, a>>) :
        /\ DrawsOf(<<a, b>>) \cup DrawsOf(<<b, a>>) = {k, l}
        /\ calls[k].edge # calls[l].edge
        /\ calls[k].color = "pink"
        /\ calls[l].color = "lightblue"

\* C6 as stated: the example graph gets one self-loop per node (0, 1 and 2),
\* one pink and one lightblue edge for the pair (0,1)/(1,0), and a single edge
\* for every pair without a reverse entry
C6_AsStated ==
    (Done /\ graph = ExampleGraph) =>
        /\ \A n \in 0 .. 2 : Cardinality(LoopsAt(n)) = 1
        /\ OnePinkOneLightBlue(0, 1)
        /\ \A e \in Range(graph.edges) :
             (e[1] # e[2] /\ Reverse(e) \notin Range(graph.edges)) =>
                 Cardinality(DrawsOf(e) \cup DrawsOf(Reverse(e))) = 1

\* C6 amended: the example graph gets one self-loop for each node with a
\* non-zero diagonal entry (0 and 2) and none for node 1; every one of its
\* pairs (0,1), (0,2), (1,2) has both directions and gets one pink and one
\* lightblue edge; 8 edge-drawing calls in all
C6_Example ==
    (Done /\ graph = ExampleGraph) =>
        /\ \A n \in 0 .. 2 :
             Cardinality(LoopsAt(n)) = (IF ExampleArray[n + 1][n + 1] # 0 THEN 1 ELSE 0)
        /\ LoopsAt(1) = {}
        /\ OnePinkOneLightBlue(0, 1)
        /\ OnePinkOneLightBlue(0, 2)
        /\ OnePinkOneLightBlue(1, 2)
        /\ Cardinality({k \in DOMAIN calls :
              calls[k].fn \in {"draw_self_loop", "draw_graph_edge"}}) = 8

C6_Witness ==
    /\ Done
    /\ graph = ExampleGraph
    /\ Len(graph.edges) = 8
    /\ Len(removed) = 8

\* C7: with ax supplied or omitted, every self-loop and edge drawn during one
\* chord_diagram call lands on one surface, and that surface is returned
C7_OneSurfaceReturned ==
    (/\ Done
     /\ mode = "chord"
     /\ \E k, l \in DOMAIN calls :
          calls[k].fn = "draw_self_loop" /\ calls[l].fn = "draw_graph_edge") =>
        /\ ret # None
        /\ \A k \in DOMAIN calls :
             calls[k].fn \in {"draw_self_loop", "draw_graph_edge"} => calls[k].ax = ret

\* C10: draw_graph_edges terminates, visiting the enumerated edges one by one;
\* the working set only shrinks once filled; no removal targets an absent edge;
\* the working set is empty when the routine returns
C10_TerminatesEmpty ==
    /\ <>(pc = "done")
    /\ [][pc = "loop" => (/\ edges_to_draw' \subseteq edges_to_draw
                          /\ (pc' = "loop" => i' = i + 1))]_vars
    /\ [](err = NoError /\ pc # "raised")
    /\ [](\A e \in Range(removed) : Cardinality(Removals(e)) = 1)
    /\ [](Done => (edges_to_draw = {} /\ i = Len(graph.edges) + 1))

C10_Witness ==
    /\ Done
    /\ ~graph.directed
    /\ Len(graph.edges) >= 2
    /\ Len(removed) = Len(graph.edges)
    /\ edges_to_draw = {}

\* C8: EPSILON removes the division by zero: for every point, y = 0 and
\* y = -EPSILON included, y + EPSILON is non-zero and the offset is finite, and
\* the normalisation in draw_self_loop divides by a finite non-zero norm
C8_NoDivisionByZero ==
    gpc # "in" =>
        /\ gpoint[2] + EPSILON # 0
        /\ gres.x.k \notin {"inf", "nan"}
        /\ gres.y.k \notin {"inf", "nan"}
        /\ gpc = "draw_self_loop" => gres.norm = gwidth

====
